---- MODULE Spec2Model ----
(***************************************************************************)
(* ColumnDesign (src/column_design.py): closed-form formulas for axially   *)
(* loaded columns, and the Euler/Johnson dispatch of Sf_buckling.          *)
(*                                                                         *)
(* Every static method is an operator that returns the outcome of one      *)
(* call: [ret |-> what the call returns or raises, out |-> the lines it    *)
(* prints].  Numbers carry the Python type they have at run time, because  *)
(* the type decides what a division by zero does: two Python numbers raise *)
(* ZeroDivisionError, while any operation with a numpy.float64 operand     *)
(* (everything downstream of np.sqrt) yields inf or nan and raises         *)
(* nothing.  Finite magnitudes are exact: s * (n/d)^(1/q), q in {1,2}, so  *)
(* that square roots of rationals are represented without rounding.        *)
(* Floating-point rounding and overflow are not modelled.                  *)
(***************************************************************************)
EXTENDS Integers, Sequences, FiniteSets, TLC

VARIABLES pc, op, args, res, out

vars == <<pc, op, args, res, out>>

\* Arguments of a call are Python numbers drawn from 0..MaxVal.
MaxVal == 3

Values == 0..MaxVal

\* np.pi on the model's grid of exact magnitudes.
pi == 3

-----------------------------------------------------------------------------
(* Run-time values *)

V(k, np, s, n, d, q) == [k |-> k, np |-> np, s |-> s, n |-> n, d |-> d, q |-> q]

None == V("None", FALSE, 0, 0, 1, 1)

TypeError == V("TypeError", FALSE, 0, 0, 1, 1)

ZeroDivisionError == V("ZeroDivisionError", FALSE, 0, 0, 1, 1)

NaN == V("nan", TRUE, 0, 0, 1, 1)

Inf(s) == V("inf", TRUE, s, 0, 1, 1)

Bool(b) == V("bool", TRUE, IF b THEN 1 ELSE 0, 0, 1, 1)

Sign(i) == IF i > 0 THEN 1 ELSE IF i < 0 THEN -1 ELSE 0

Abs(i) == IF i < 0 THEN -i ELSE i

\* A finite number s * (n/d)^(1/q); zero has one representation.
Fin(np, s, n, d, q) == IF s = 0 \/ n = 0 THEN V("fin", np, 0, 0, 1, 1) ELSE V("fin", np, s, n, d, q)

\* A Python number (int or float) with the integer value i.
Py(i) == Fin(FALSE, Sign(i), Abs(i), 1, 1)

IsNum(v) == v.k \in {"fin", "inf", "nan"}

IsRaise(v) == v.k \in {"TypeError", "ZeroDivisionError"}

IsZero(v) == v.k = "fin" /\ v.s = 0

\* Numerator and denominator of the square of a finite magnitude.
N2(a) == IF a.q = 2 THEN a.n ELSE a.n * a.n

D2(a) == IF a.q = 2 THEN a.d ELSE a.d * a.d

\* |a| < |b| for finite a, b.
MagLess(a, b) ==
    IF a.q = 1 /\ b.q = 1 THEN a.n * b.d < b.n * a.d
    ELSE N2(a) * D2(b) < N2(b) * D2(a)

\* a < b for numbers other than nan.
Less(a, b) ==
    IF a.k = "inf" /\ b.k = "inf" THEN a.s < b.s
    ELSE IF a.k = "inf" THEN a.s < 0
    ELSE IF b.k = "inf" THEN b.s > 0
    ELSE IF a.s # b.s THEN a.s < b.s
    ELSE IF a.s = 0 THEN FALSE
    ELSE IF a.s > 0 THEN MagLess(a, b)
    ELSE MagLess(b, a)

\* Operands are evaluated left to right; the first exception wins, and
\* arithmetic on None raises TypeError.
Operands(a, b, result) ==
    IF IsRaise(a) THEN a
    ELSE IF IsRaise(b) THEN b
    ELSE IF ~IsNum(a) \/ ~IsNum(b) THEN TypeError
    ELSE result

\* a * b
Mul(a, b) ==
    Operands(a, b,
        IF a.k = "nan" \/ b.k = "nan" THEN NaN
        ELSE IF a.k = "inf" \/ b.k = "inf"
             THEN IF IsZero(a) \/ IsZero(b) THEN NaN ELSE Inf(a.s * b.s)
        ELSE IF a.q = 1 /\ b.q = 1
             THEN Fin(a.np \/ b.np, a.s * b.s, a.n * b.n, a.d * b.d, 1)
        ELSE Fin(a.np \/ b.np, a.s * b.s, N2(a) * N2(b), D2(a) * D2(b), 2))

\* a / b: Python raises on a zero divisor, numpy.float64 returns inf or nan.
Div(a, b) ==
    Operands(a, b,
        IF a.k = "nan" \/ b.k = "nan" THEN NaN
        ELSE IF IsZero(b)
             THEN IF ~a.np /\ ~b.np THEN ZeroDivisionError
                  ELSE IF IsZero(a) THEN NaN
                  ELSE Inf(a.s)
        ELSE IF b.k = "inf"
             THEN IF a.k = "inf" THEN NaN ELSE Fin(TRUE, 0, 0, 1, 1)
        ELSE IF a.k = "inf" THEN Inf(a.s * b.s)
        ELSE IF a.q = 1 /\ b.q = 1
             THEN Fin(a.np \/ b.np, a.s * b.s, a.n * b.d, a.d * b.n, 1)
        ELSE Fin(a.np \/ b.np, a.s * b.s, N2(a) * D2(b), D2(a) * N2(b), 2))

\* a - b; every subtraction of the module has rational operands (q = 1).
Sub(a, b) ==
    Operands(a, b,
        IF a.k = "nan" \/ b.k = "nan" THEN NaN
        ELSE IF a.k = "inf" /\ b.k = "inf"
             THEN IF a.s = b.s THEN NaN ELSE Inf(a.s)
        ELSE IF a.k = "inf" THEN Inf(a.s)
        ELSE IF b.k = "inf" THEN Inf(-b.s)
        ELSE LET num == a.s * a.n * b.d - b.s * b.n * a.d
             IN Fin(a.np \/ b.np, Sign(num), Abs(num), a.d * b.d, 1))

\* a ** 2
Pow2(a) ==
    Operands(a, a,
        IF a.k = "nan" THEN NaN
        ELSE IF a.k = "inf" THEN Inf(1)
        ELSE Fin(a.np, a.s * a.s, N2(a), D2(a), 1))

\* np.sqrt(a): always a numpy.float64; nan for a negative argument.
\* Every argument of np.sqrt in the module is rational (q = 1).
Sqrt(a) ==
    Operands(a, a,
        IF a.k = "nan" THEN NaN
        ELSE IF a.k = "inf" THEN (IF a.s > 0 THEN Inf(1) ELSE NaN)
        ELSE IF a.s < 0 THEN NaN
        ELSE Fin(TRUE, a.s, a.n, a.d, 2))

\* a > b: false when either side is nan.
Gt(a, b) ==
    Operands(a, b,
        IF a.k = "nan" \/ b.k = "nan" THEN Bool(FALSE) ELSE Bool(Less(b, a)))

\* Truth value of x in `if x:`.
Truthy(v) ==
    IF v.k = "bool" THEN v.s = 1
    ELSE IF v.k = "None" THEN FALSE
    ELSE IF v.k = "fin" THEN v.s # 0
    ELSE TRUE

-----------------------------------------------------------------------------
(* Outcomes of calls *)

Outcome(ret, lines) == [ret |-> ret, out |-> lines]

\* try: body / except <excs>: print(msg)   (the call then returns None)
Catch(body, excs, msg) ==
    IF body.ret.k \in excs THEN Outcome(None, Append(body.out, msg)) ELSE body

InvalidLength == "Invalid length"

InvalidArea == "Invalid area"

InvalidRadius == "Invalid radius of gyration"

InvalidSlenderness == "Invalid slenderness ratio"

InvalidInput == "Invalid input data"

EulerUsed == "Euler buckling critical load formula is used"

JohnsonUsed == "Johnson buckling critical load formula is used"

\* 'Buckling critical load = {} N'.format(p_crit)
CriticalLoadLine == "Buckling critical load = {} N"

-----------------------------------------------------------------------------
(* The static methods of ColumnDesign *)

\* return F/S   (no try: a ZeroDivisionError reaches the caller)
area_req_compression(F, S) == Outcome(Div(F, S), <<>>)

Euler_buckling_critical_load(E, I, L, C) ==
    Catch(Outcome(Div(Mul(Mul(Mul(C, Pow2(Py(pi))), E), I), Pow2(L)), <<>>),
          {"ZeroDivisionError"}, InvalidLength)

radius_gyration(I, A) ==
    Catch(Outcome(Sqrt(Div(I, A)), <<>>), {"ZeroDivisionError"}, InvalidArea)

slenderness_ratio(L, k) ==
    Catch(Outcome(Div(L, k), <<>>), {"ZeroDivisionError"}, InvalidRadius)

Euler_unit_buckling_critical_load(E, I, L, C, A) ==
    LET c1 == radius_gyration(I, A)
        c2 == slenderness_ratio(L, c1.ret)
        body == IF IsRaise(c1.ret) THEN c1
                ELSE Outcome(Div(Mul(Mul(C, Pow2(Py(pi))), E), Pow2(c2.ret)),
                             c1.out \o c2.out)
    IN Catch(body, {"ZeroDivisionError"}, InvalidSlenderness)

\* The same method with the comparison `lk >= lk1`.
is_Euler_column_ge(C, E, Sy, L, A, I) ==
    LET c1 == radius_gyration(I, A)
        c2 == slenderness_ratio(L, c1.ret)
        lk1 == Sqrt(Div(Mul(Mul(Mul(Py(2), Pow2(Py(pi))), C), E), Sy))
        ge == LET r == Gt(lk1, c2.ret)
              IN IF r.k = "bool" /\ c2.ret.k # "nan" /\ lk1.k # "nan"
                 THEN Bool(r.s = 0) ELSE r
        body == IF IsRaise(c1.ret) THEN c1
                ELSE IF IsRaise(c2.ret) THEN Outcome(c2.ret, c1.out \o c2.out)
                ELSE Outcome(ge, c1.out \o c2.out)
    IN Catch(body, {"ZeroDivisionError"}, InvalidInput)

\* The same method with the comparison reversed, `lk < lk1`.
is_Euler_column_lt(C, E, Sy, L, A, I) ==
    LET c1 == radius_gyration(I, A)
        c2 == slenderness_ratio(L, c1.ret)
        lk1 == Sqrt(Div(Mul(Mul(Mul(Py(2), Pow2(Py(pi))), C), E), Sy))
        body == IF IsRaise(c1.ret) THEN c1
                ELSE IF IsRaise(c2.ret) THEN Outcome(c2.ret, c1.out \o c2.out)
                ELSE Outcome(Gt(lk1, c2.ret), c1.out \o c2.out)
    IN Catch(body, {"ZeroDivisionError"}, InvalidInput)

is_Euler_column(C, E, Sy, L, A, I) ==
    LET c1 == radius_gyration(I, A)
        c2 == slenderness_ratio(L, c1.ret)
        lk1 == Sqrt(Div(Mul(Mul(Mul(Py(2), Pow2(Py(pi))), C), E), Sy))
        body == IF IsRaise(c1.ret) THEN c1
                ELSE IF IsRaise(c2.ret) THEN Outcome(c2.ret, c1.out \o c2.out)
                ELSE Outcome(Gt(c2.ret, lk1), c1.out \o c2.out)
    IN Catch(body, {"ZeroDivisionError"}, InvalidInput)

Jhonson_unit_buckling_critical_load(E, I, L, C, A, Sy) ==
    LET c1 == radius_gyration(I, A)
        a1 == Pow2(Div(Mul(Sy, L), Mul(Mul(Py(2), Py(pi)), c1.ret)))
        a2 == Div(Py(1), Mul(C, E))
        body == IF IsRaise(c1.ret) THEN c1
                ELSE Outcome(Sub(Sy, Mul(a1, a2)), c1.out)
    IN Catch(body, {"ZeroDivisionError"}, InvalidInput)

\* No try: unit_crit_load*A raises TypeError when the unit load is None.
Jhonson_buckling_critical_load(E, I, L, C, A, Sy) ==
    LET c1 == Jhonson_unit_buckling_critical_load(E, I, L, C, A, Sy)
    IN IF IsRaise(c1.ret) THEN c1 ELSE Outcome(Mul(c1.ret, A), c1.out)

Sf_compression(S_allow, F, A) ==
    LET S_compr == Div(F, A)
    IN Catch(Outcome(Div(S_allow, S_compr), <<>>), {"ZeroDivisionError"}, InvalidInput)

\* SF_buckling with `except ZeroDivisionError` in place of `except Exception`.
Sf_buckling_zde(E, I, L, C, A, Sy, F) ==
    LET c0 == is_Euler_column(C, E, Sy, L, A, I)
        c1 == IF Truthy(c0.ret) THEN Euler_buckling_critical_load(E, I, L, C)
              ELSE Jhonson_buckling_critical_load(E, I, L, C, A, Sy)
        used == IF Truthy(c0.ret) THEN EulerUsed ELSE JohnsonUsed
        body == IF IsRaise(c0.ret) THEN c0
                ELSE IF IsRaise(c1.ret)
                     THEN Outcome(c1.ret, Append(c0.out, used) \o c1.out)
                ELSE Outcome(Div(c1.ret, F),
                             Append(Append(c0.out, used) \o c1.out, CriticalLoadLine))
    IN Catch(body, {"ZeroDivisionError"}, InvalidInput)

\* SF_buckling with the critical-load formulas of the two branches exchanged.
Sf_buckling_swapped(E, I, L, C, A, Sy, F) ==
    LET c0 == is_Euler_column(C, E, Sy, L, A, I)
        c1 == IF Truthy(c0.ret) THEN Jhonson_buckling_critical_load(E, I, L, C, A, Sy)
              ELSE Euler_buckling_critical_load(E, I, L, C)
        used == IF Truthy(c0.ret) THEN EulerUsed ELSE JohnsonUsed
        body == IF IsRaise(c0.ret) THEN c0
                ELSE IF IsRaise(c1.ret)
                     THEN Outcome(c1.ret, Append(c0.out, used) \o c1.out)
                ELSE Outcome(Div(c1.ret, F),
                             Append(Append(c0.out, used) \o c1.out, CriticalLoadLine))
    IN Catch(body, {"TypeError", "ZeroDivisionError"}, InvalidInput)

\* SF_buckling (SF_ is the strong-fairness operator, hence Sf_ here and in
\* Sf_compression).  `except Exception` catches every exception of the block.
Sf_buckling(E, I, L, C, A, Sy, F) ==
    LET c0 == is_Euler_column(C, E, Sy, L, A, I)
        c1 == IF Truthy(c0.ret) THEN Euler_buckling_critical_load(E, I, L, C)
              ELSE Jhonson_buckling_critical_load(E, I, L, C, A, Sy)
        used == IF Truthy(c0.ret) THEN EulerUsed ELSE JohnsonUsed
        body == IF IsRaise(c0.ret) THEN c0
                ELSE IF IsRaise(c1.ret)
                     THEN Outcome(c1.ret, Append(c0.out, used) \o c1.out)
                ELSE Outcome(Div(c1.ret, F),
                             Append(Append(c0.out, used) \o c1.out, CriticalLoadLine))
    IN Catch(body, {"TypeError", "ZeroDivisionError"}, InvalidInput)

-----------------------------------------------------------------------------
(* A caller that invokes the methods one call at a time *)

NoArgs == [n \in {} |-> 0]

Init ==
    /\ pc = "idle"
    /\ op = "none"
    /\ args = NoArgs
    /\ res = None
    /\ out = <<>>

\* The call `name(a)` has ended with outcome c.
Returned(name, a, c) ==
    /\ pc' = "returned"
    /\ op' = name
    /\ args' = a
    /\ res' = c.ret
    /\ out' = c.out

Call_area_req_compression ==
    /\ pc = "idle"
    /\ \E F \in Values, S \in Values :
          Returned("area_req_compression", [F |-> F, S |-> S],
                   area_req_compression(Py(F), Py(S)))

Call_Euler_buckling_critical_load ==
    /\ pc = "idle"
    /\ \E E \in Values, I \in Values, L \in Values, C \in Values :
          Returned("Euler_buckling_critical_load", [E |-> E, I |-> I, L |-> L, C |-> C],
                   Euler_buckling_critical_load(Py(E), Py(I), Py(L), Py(C)))

Call_radius_gyration ==
    /\ pc = "idle"
    /\ \E I \in Values, A \in Values :
          Returned("radius_gyration", [I |-> I, A |-> A], radius_gyration(Py(I), Py(A)))

Call_slenderness_ratio ==
    /\ pc = "idle"
    /\ \E L \in Values, k \in Values :
          Returned("slenderness_ratio", [L |-> L, k |-> k], slenderness_ratio(Py(L), Py(k)))

Call_Euler_unit_buckling_critical_load ==
    /\ pc = "idle"
    /\ \E E \in Values, I \in Values, L \in Values, C \in Values, A \in Values :
          Returned("Euler_unit_buckling_critical_load",
                   [E |-> E, I |-> I, L |-> L, C |-> C, A |-> A],
                   Euler_unit_buckling_critical_load(Py(E), Py(I), Py(L), Py(C), Py(A)))

Call_is_Euler_column ==
    /\ pc = "idle"
    /\ \E C \in Values, E \in Values, Sy \in Values, L \in Values, A \in Values, I \in Values :
          Returned("is_Euler_column",
                   [C |-> C, E |-> E, Sy |-> Sy, L |-> L, A |-> A, I |-> I],
                   is_Euler_column(Py(C), Py(E), Py(Sy), Py(L), Py(A), Py(I)))

Call_Jhonson_unit_buckling_critical_load ==
    /\ pc = "idle"
    /\ \E E \in Values, I \in Values, L \in Values, C \in Values, A \in Values, Sy \in Values :
          Returned("Jhonson_unit_buckling_critical_load",
                   [E |-> E, I |-> I, L |-> L, C |-> C, A |-> A, Sy |-> Sy],
                   Jhonson_unit_buckling_critical_load(Py(E), Py(I), Py(L), Py(C), Py(A), Py(Sy)))

Call_Jhonson_buckling_critical_load ==
    /\ pc = "idle"
    /\ \E E \in Values, I \in Values, L \in Values, C \in Values, A \in Values, Sy \in Values :
          Returned("Jhonson_buckling_critical_load",
                   [E |-> E, I |-> I, L |-> L, C |-> C, A |-> A, Sy |-> Sy],
                   Jhonson_buckling_critical_load(Py(E), Py(I), Py(L), Py(C), Py(A), Py(Sy)))

Call_Sf_compression ==
    /\ pc = "idle"
    /\ \E S_allow \in Values, F \in Values, A \in Values :
          Returned("SF_compression", [S_allow |-> S_allow, F |-> F, A |-> A],
                   Sf_compression(Py(S_allow), Py(F), Py(A)))

Call_Sf_buckling ==
    /\ pc = "idle"
    /\ \E E \in Values, I \in Values, L \in Values, C \in Values, A \in Values,
          Sy \in Values, F \in Values :
          Returned("SF_buckling",
                   [E |-> E, I |-> I, L |-> L, C |-> C, A |-> A, Sy |-> Sy, F |-> F],
                   Sf_buckling(Py(E), Py(I), Py(L), Py(C), Py(A), Py(Sy), Py(F)))

\* The caller has consumed the outcome and is ready for its next call.
NextCall ==
    /\ pc = "returned"
    /\ pc' = "idle"
    /\ op' = "none"
    /\ args' = NoArgs
    /\ res' = None
    /\ out' = <<>>

Next ==
    \/ Call_area_req_compression
    \/ Call_Euler_buckling_critical_load
    \/ Call_radius_gyration
    \/ Call_slenderness_ratio
    \/ Call_Euler_unit_buckling_critical_load
    \/ Call_is_Euler_column
    \/ Call_Jhonson_unit_buckling_critical_load
    \/ Call_Jhonson_buckling_critical_load
    \/ Call_Sf_compression
    \/ Call_Sf_buckling
    \/ NextCall

Spec == Init /\ [][Next]_vars

-----------------------------------------------------------------------------
(* Vocabulary of the properties *)

\* A call fails when it raises, or reports the error and returns no value.
Failed(v) == v.k \in {"None", "TypeError", "ZeroDivisionError"}

\* a and b are the same float value.
SameValue(a, b) ==
    /\ a.k = b.k
    /\ a.k = "inf" => a.s = b.s
    /\ a.k = "fin" => ~Less(a, b) /\ ~Less(b, a)

\* The formulas a call of SF_buckling announced.
Selected(lines) == {m \in {EulerUsed, JohnsonUsed} : \E i \in DOMAIN lines : lines[i] = m}

LastLine(lines) == IF lines = <<>> THEN "" ELSE lines[Len(lines)]

AtBuckling == pc = "returned" /\ op = "SF_buckling"

\* Calls of the inner methods, on their own, with the arguments of the
\* SF_buckling (or Jhonson_buckling_critical_load) call of the current state.
PredicateAlone ==
    is_Euler_column(Py(args.C), Py(args.E), Py(args.Sy), Py(args.L), Py(args.A), Py(args.I))

RadiusAlone == radius_gyration(Py(args.I), Py(args.A))

SlendernessAlone == slenderness_ratio(Py(args.L), RadiusAlone.ret)

EulerAlone == Euler_buckling_critical_load(Py(args.E), Py(args.I), Py(args.L), Py(args.C))

JohnsonUnitAlone ==
    Jhonson_unit_buckling_critical_load(Py(args.E), Py(args.I), Py(args.L), Py(args.C),
                                        Py(args.A), Py(args.Sy))

JohnsonAlone ==
    Jhonson_buckling_critical_load(Py(args.E), Py(args.I), Py(args.L), Py(args.C),
                                   Py(args.A), Py(args.Sy))

IsTrue(v) == v.k = "bool" /\ v.s = 1

IsFalse(v) == v.k = "bool" /\ v.s = 0

-----------------------------------------------------------------------------
(* Properties *)

\* C1: the formula SF_buckling selects is the one is_Euler_column selects on
\* its own for the same inputs: Euler when the predicate is true, Johnson
\* when it is false, none when the predicate produces no boolean.
C1_DispatchMatchesPredicate ==
    AtBuckling =>
        /\ IsTrue(PredicateAlone.ret) => Selected(out) = {EulerUsed}
        /\ IsFalse(PredicateAlone.ret) => Selected(out) = {JohnsonUsed}
        /\ PredicateAlone.ret.k # "bool" => Selected(out) = {}

\* C2: whenever is_Euler_column, radius_gyration, slenderness_ratio or the
\* selected critical-load method fails for the inputs, SF_buckling returns no
\* numeric safety factor.
C2_InnerFailurePropagates ==
    LET innerFails ==
            \/ Failed(PredicateAlone.ret)
            \/ Failed(RadiusAlone.ret)
            \/ Failed(SlendernessAlone.ret)
            \/ IsTrue(PredicateAlone.ret) /\ Failed(EulerAlone.ret)
            \/ IsFalse(PredicateAlone.ret) /\ Failed(JohnsonAlone.ret)
    IN AtBuckling /\ innerFails => res.k # "fin"

\* C3: a call of SF_buckling with F = 0 (its other inputs positive) returns no
\* numeric value, neither an infinity nor a NaN, whichever branch computed the
\* critical load.
C3_ZeroLoadFails ==
    AtBuckling /\ args.F = 0
               /\ args.E > 0 /\ args.I > 0 /\ args.L > 0 /\ args.C > 0
               /\ args.A > 0 /\ args.Sy > 0
        => ~IsNum(res)

AllPositive ==
    /\ args.E > 0 /\ args.I > 0 /\ args.L > 0 /\ args.C > 0
    /\ args.A > 0 /\ args.Sy > 0 /\ args.F > 0

\* C4: with all inputs strictly positive SF_buckling succeeds and returns
\* P_cr / F, P_cr being the Euler critical load when is_Euler_column is true
\* and the Johnson critical load otherwise.
C4_SafetyFactorIsCriticalLoadOverLoad ==
    AtBuckling /\ AllPositive =>
        LET P_cr == IF IsTrue(PredicateAlone.ret) THEN EulerAlone.ret ELSE JohnsonAlone.ret
        IN /\ res.k = "fin"
           /\ P_cr.k = "fin"
           /\ SameValue(Mul(res, Py(args.F)), P_cr)

C4_Witness ==
    /\ AtBuckling /\ AllPositive
    /\ IsTrue(PredicateAlone.ret)
    /\ res.k = "fin" /\ res.s > 0
    /\ args.F > 1

\* C5: every method that receives a zero in a documented denominator position
\* (its other arguments positive) fails, and does not return a computed
\* infinity.
C5_ZeroDenominatorFails ==
    pc = "returned" =>
        /\ op = "area_req_compression" /\ args.S = 0 /\ args.F > 0 => Failed(res)
        /\ op = "Euler_buckling_critical_load" /\ args.L = 0
              /\ args.E > 0 /\ args.I > 0 /\ args.C > 0 => Failed(res)
        /\ op = "Euler_unit_buckling_critical_load" /\ args.L = 0
              /\ args.E > 0 /\ args.I > 0 /\ args.C > 0 /\ args.A > 0 => Failed(res)
        /\ op = "radius_gyration" /\ args.A = 0 /\ args.I > 0 => Failed(res)
        /\ op = "slenderness_ratio" /\ args.k = 0 /\ args.L > 0 => Failed(res)
        /\ op = "is_Euler_column" /\ args.Sy = 0
              /\ args.C > 0 /\ args.E > 0 /\ args.L > 0 /\ args.A > 0 /\ args.I > 0
              => Failed(res)
        /\ op = "Jhonson_unit_buckling_critical_load"
              /\ args.L > 0 /\ args.A > 0 /\ args.Sy > 0
              /\ \/ args.I = 0 /\ args.C > 0 /\ args.E > 0
                 \/ args.I > 0 /\ args.C * args.E = 0
              => Failed(res)
        /\ op = "SF_compression" /\ args.S_allow > 0
              /\ \/ args.A = 0 /\ args.F > 0
                 \/ args.F = 0 /\ args.A > 0
              => Failed(res)

\* C6: Jhonson_buckling_critical_load fails the way the unit-load call fails
\* whenever that call fails, and otherwise returns the unit load times A.
C6_JohnsonPropagatesUnitFailure ==
    pc = "returned" /\ op = "Jhonson_buckling_critical_load" =>
        IF Failed(JohnsonUnitAlone.ret)
        THEN res = JohnsonUnitAlone.ret
        ELSE SameValue(res, Mul(JohnsonUnitAlone.ret, Py(args.A)))

AtPredicate == pc = "returned" /\ op = "is_Euler_column"

\* C7: for fixed positive C, E, Sy, A, I, is_Euler_column is monotonic in L:
\* once true at a length, it is true at every greater length.
C7_MonotonicInLength ==
    AtPredicate /\ args.C > 0 /\ args.E > 0 /\ args.Sy > 0 /\ args.A > 0 /\ args.I > 0
                /\ IsTrue(res) =>
        \A L2 \in Values :
            L2 >= args.L =>
                IsTrue(is_Euler_column(Py(args.C), Py(args.E), Py(args.Sy), Py(L2),
                                       Py(args.A), Py(args.I)).ret)

C7_Witness ==
    /\ AtPredicate /\ args.C > 0 /\ args.E > 0 /\ args.Sy > 0 /\ args.A > 0 /\ args.I > 0
    /\ IsTrue(res)
    /\ args.L < MaxVal
    /\ IsFalse(is_Euler_column(Py(args.C), Py(args.E), Py(args.Sy), Py(args.L - 1),
                               Py(args.A), Py(args.I)).ret)

\* (L/k)^2 compared with 2*pi^2*C*E/Sy for k = sqrt(I/A), over the integers.
SlenderSq == args.L * args.L * args.A * args.Sy

TransitionSq == 2 * pi * pi * args.C * args.E * args.I

\* C9: is_Euler_column is true exactly when L/k is strictly greater than
\* sqrt(2*pi^2*C*E/Sy); at equality and for L = 0 it is false, and
\* SF_buckling then uses the Johnson formula.
C9_StrictComparison ==
    pc = "returned" /\ op \in {"is_Euler_column", "SF_buckling"}
                    /\ args.A > 0 /\ args.I > 0 /\ args.Sy > 0 =>
        /\ op = "is_Euler_column" =>
              /\ res.k = "bool"
              /\ IsTrue(res) <=> SlenderSq > TransitionSq
              /\ args.L = 0 => IsFalse(res)
        /\ op = "SF_buckling" /\ (SlenderSq = TransitionSq \/ args.L = 0) =>
              Selected(out) = {JohnsonUsed}

C9_Witness ==
    /\ AtPredicate /\ args.A > 0 /\ args.I > 0 /\ args.Sy > 0
    /\ args.L > 0 /\ args.C > 0 /\ args.E > 0
    /\ SlenderSq = TransitionSq
    /\ IsFalse(res)

\* C10: SF_buckling lets no exception reach its caller: it returns a number,
\* or prints 'Invalid input data' and returns no value, also when an inner
\* call raised an error other than a division by zero.
C10_NoExceptionEscapes ==
    AtBuckling =>
        /\ ~IsRaise(res)
        /\ IsNum(res) \/ (res = None /\ LastLine(out) = InvalidInput)

C10_Witness ==
    /\ AtBuckling
    /\ IsFalse(PredicateAlone.ret)
    /\ JohnsonAlone.ret = TypeError
    /\ res = None /\ LastLine(out) = InvalidInput

====
